---------------------------- MODULE Spec2Model ----------------------------
(***************************************************************************)
(* Signalling server of aymnn34/calling (src/server.js): the room registry *)
(* `rooms`, the per-connection session variables of the connection         *)
(* handler, the message / close / error handlers and the heartbeat         *)
(* interval.  Every handler runs to completion on the single-threaded      *)
(* event loop, so each one is one atomic action.                           *)
(***************************************************************************)
EXTENDS Integers, Sequences, FiniteSets, TLC

\* ------------------------------ bounds ---------------------------------
MaxJoins == 3
MonitorJoins == 2
DeepJoins == 4
MaxMissed == 2

Conns == {1, 2, 3}
MonitorConns == {1, 2}
Rooms == {"r1", "r2"}
OneRoom == {"r1"}
TwoIds == {"alice", "bob"}
Ids == {"alice", "bob", "carol"}
Bodies == {"sdp"}

Null == "null"
NoWs == 0

VARIABLES
    rooms,      \* const rooms = new Map(): room name -> Map(id -> ws)
    sess,       \* per connection: currentRoom, clientId, isAuthenticated
    st,         \* per connection: ws.readyState ("NEW" before the connection event)
    isAlive,    \* per connection: ws.isAlive
    missed,     \* history: heartbeat cycles run on the connection since its last pong
    joins,      \* history: number of registrations (participants.set) made so far
    ev,         \* the event being handled ("idle": the event loop is waiting)
    sent,       \* the messages the handler passed to ws.send, in order
    pre         \* rooms, sess, st and isAlive when the handler was entered

vars == <<rooms, sess, st, isAlive, missed, joins, ev, sent, pre>>

Range(f) == {f[k] : k \in DOMAIN f}

\* --------------------------- JS Map helpers ----------------------------
\* A Map(id -> ws) is the sequence of its entries in insertion order.
Keys(parts) == [k \in 1 .. Len(parts) |-> parts[k].id]

Has(parts, id) == \E k \in 1 .. Len(parts) : parts[k].id = id

Get(parts, id) ==
    IF Has(parts, id)
    THEN parts[CHOOSE k \in 1 .. Len(parts) : parts[k].id = id].ws
    ELSE NoWs

\* Mutant of MapSet: a set on a key already present adds a second entry.
MapSet_Append(parts, id, ws) == Append(parts, [id |-> id, ws |-> ws])

MapSet(parts, id, ws) ==
    IF Has(parts, id)
    THEN [k \in 1 .. Len(parts) |->
            IF parts[k].id = id THEN [id |-> id, ws |-> ws] ELSE parts[k]]
    ELSE Append(parts, [id |-> id, ws |-> ws])

MapDelete(parts, id) == SelectSeq(parts, LAMBDA e : e.id # id)

RoomsHas(rms, room) == room \in DOMAIN rms

RoomsSet(rms, room, parts) ==
    [r \in DOMAIN rms \cup {room} |-> IF r = room THEN parts ELSE rms[r]]

RoomsDelete(rms, room) == [r \in DOMAIN rms \ {room} |-> rms[r]]

getRoomSize(rms, roomName) ==
    IF RoomsHas(rms, roomName) THEN Len(rms[roomName]) ELSE 0

\* --------------------------- outbound messages -------------------------
Msg(type) ==
    [to |-> NoWs, type |-> type, room |-> Null, id |-> Null, participants |-> 0,
     peerId |-> Null, shouldCreateOffer |-> FALSE, payload |-> Null,
     from |-> Null, message |-> Null]

To(ws, m) == [m EXCEPT !.to = ws]

ErrorMsg(text) == [Msg("error") EXCEPT !.message = text]

JoinedMsg(room, id, n) ==
    [Msg("joined") EXCEPT !.room = room, !.id = id, !.participants = n]

PeerJoinedMsg(peerId, flag) ==
    [Msg("peer-joined") EXCEPT !.peerId = peerId, !.shouldCreateOffer = flag]

PeerLeftMsg(peerId) == [Msg("peer-left") EXCEPT !.peerId = peerId]

RelayMsg(type, body, from) == [Msg(type) EXCEPT !.payload = body, !.from = from]

RequiredText == "Room name and ID are required"
FullText == "Room is full. Maximum 2 participants allowed."
InvalidText == "Invalid message format"

\* ----------------------------- relay helpers ---------------------------
RECURSIVE SendEach(_, _, _, _)
SendEach(parts, stt, message, excludeId) ==
    IF parts = <<>> THEN <<>>
    ELSE LET e == Head(parts)
             rest == SendEach(Tail(parts), stt, message, excludeId)
         IN  IF e.id # excludeId /\ stt[e.ws] = "OPEN"
             THEN <<To(e.ws, message)>> \o rest
             ELSE rest

broadcastToRoom(rms, stt, roomName, message, excludeId) ==
    IF ~RoomsHas(rms, roomName) THEN <<>>
    ELSE SendEach(rms[roomName], stt, message, excludeId)

sendToClient(rms, stt, roomName, clientId, message) ==
    IF ~RoomsHas(rms, roomName) THEN <<>>
    ELSE LET ws == Get(rms[roomName], clientId)
         IN  IF ws # NoWs /\ stt[ws] = "OPEN" THEN <<To(ws, message)>> ELSE <<>>

\* ------------------------------- handlers ------------------------------
NoSession == [room |-> Null, id |-> Null, auth |-> FALSE]

\* Each handler maps the registry and the sessions to their new values and
\* the messages it sent: [rooms, sess, out].
Same(rms, ss) == [rooms |-> rms, sess |-> ss, out |-> <<>>]

\* Mutant of handleLeave: the emptied room is kept in the registry.
handleLeave_KeepRoom(rms, ss, stt, c) ==
    LET currentRoom == ss[c].room
        clientId == ss[c].id
    IN  IF currentRoom = Null \/ clientId = Null THEN Same(rms, ss)
        ELSE LET cleared == [ss EXCEPT ![c] = NoSession]
             IN  IF RoomsHas(rms, currentRoom)
                 THEN [rooms |-> RoomsSet(rms, currentRoom,
                                          MapDelete(rms[currentRoom], clientId)),
                       sess |-> cleared,
                       out |-> broadcastToRoom(rms, stt, currentRoom,
                                               PeerLeftMsg(clientId), clientId)]
                 ELSE [rooms |-> rms, sess |-> cleared, out |-> <<>>]

\* Mutant of handleLeave: the peer-left notice also goes to the participants
\* of the other room.
handleLeave_NotifyOtherRoom(rms, ss, stt, c) ==
    LET currentRoom == ss[c].room
        clientId == ss[c].id
    IN  IF currentRoom = Null \/ clientId = Null THEN Same(rms, ss)
        ELSE LET cleared == [ss EXCEPT ![c] = NoSession]
                 otherRoom == CHOOSE r \in Rooms : r # currentRoom
             IN  IF RoomsHas(rms, currentRoom)
                 THEN LET parts == MapDelete(rms[currentRoom], clientId)
                      IN  [rooms |-> IF Len(parts) = 0
                                     THEN RoomsDelete(rms, currentRoom)
                                     ELSE RoomsSet(rms, currentRoom, parts),
                           sess |-> cleared,
                           out |-> broadcastToRoom(rms, stt, currentRoom,
                                                   PeerLeftMsg(clientId), clientId)
                                   \o broadcastToRoom(rms, stt, otherRoom,
                                                      PeerLeftMsg(clientId), clientId)]
                 ELSE [rooms |-> rms, sess |-> cleared, out |-> <<>>]

\* Mutant of handleLeave: clientId is not cleared.
handleLeave_KeepsId(rms, ss, stt, c) ==
    LET currentRoom == ss[c].room
        clientId == ss[c].id
    IN  IF currentRoom = Null \/ clientId = Null THEN Same(rms, ss)
        ELSE LET cleared == [ss EXCEPT ![c].room = Null, ![c].auth = FALSE]
             IN  IF RoomsHas(rms, currentRoom)
                 THEN LET parts == MapDelete(rms[currentRoom], clientId)
                      IN  [rooms |-> IF Len(parts) = 0
                                     THEN RoomsDelete(rms, currentRoom)
                                     ELSE RoomsSet(rms, currentRoom, parts),
                           sess |-> cleared,
                           out |-> broadcastToRoom(rms, stt, currentRoom,
                                                   PeerLeftMsg(clientId), clientId)]
                 ELSE [rooms |-> rms, sess |-> cleared, out |-> <<>>]

handleLeave(rms, ss, stt, c) ==
    LET currentRoom == ss[c].room
        clientId == ss[c].id
    IN  IF currentRoom = Null \/ clientId = Null THEN Same(rms, ss)
        ELSE LET cleared == [ss EXCEPT ![c] = NoSession]
             IN  IF RoomsHas(rms, currentRoom)
                 THEN LET parts == MapDelete(rms[currentRoom], clientId)
                      IN  [rooms |-> IF Len(parts) = 0
                                     THEN RoomsDelete(rms, currentRoom)
                                     ELSE RoomsSet(rms, currentRoom, parts),
                           sess |-> cleared,
                           out |-> broadcastToRoom(rms, stt, currentRoom,
                                                   PeerLeftMsg(clientId), clientId)]
                 ELSE [rooms |-> rms, sess |-> cleared, out |-> <<>>]

PeerJoinedOut(rms, stt, c, room, id) ==
    LET parts == rms[room]
        others == SelectSeq(Keys(parts), LAMBDA otherId : otherId # id)
    IN  IF Len(parts) = 2 /\ others # <<>>
        THEN sendToClient(rms, stt, room, Head(others), PeerJoinedMsg(id, TRUE))
             \o <<To(c, PeerJoinedMsg(Head(others), FALSE))>>
        ELSE <<>>

\* The join handler with its capacity limit and the room size it reports as
\* parameters: limit = 2 and sizeAfter = TRUE are the code's.
JoinWith(rms, ss, stt, c, room, id, limit, sizeAfter) ==
    IF room = Null \/ id = Null
    THEN [rooms |-> rms, sess |-> ss, out |-> <<To(c, ErrorMsg(RequiredText))>>]
    ELSE LET left == IF ss[c].room # Null /\ ss[c].room # room
                     THEN handleLeave(rms, ss, stt, c)
                     ELSE Same(rms, ss)
             made == IF RoomsHas(left.rooms, room) THEN left.rooms
                     ELSE RoomsSet(left.rooms, room, <<>>)
             participants == made[room]
         IN  IF Len(participants) >= limit /\ ~Has(participants, id)
             THEN [rooms |-> made, sess |-> left.sess,
                   out |-> left.out \o <<To(c, ErrorMsg(FullText))>>]
             ELSE LET after == RoomsSet(made, room, MapSet(participants, id, c))
                      size == IF sizeAfter THEN Len(after[room]) ELSE Len(participants)
                  IN  [rooms |-> after,
                       sess |-> [left.sess EXCEPT
                                   ![c] = [room |-> room, id |-> id, auth |-> TRUE]],
                       out |-> left.out
                               \o <<To(c, JoinedMsg(room, id, size))>>
                               \o PeerJoinedOut(after, stt, c, room, id)]

\* Mutant of handleJoin: the capacity check lets a third participant in.
handleJoin_Capacity3(rms, ss, stt, c, room, id) ==
    JoinWith(rms, ss, stt, c, room, id, 3, TRUE)

\* Mutant of handleJoin: joined reports the room size before the insertion.
handleJoin_SizeBefore(rms, ss, stt, c, room, id) ==
    JoinWith(rms, ss, stt, c, room, id, 2, FALSE)

\* Mutant of handleJoin: the connection leaves its room before the fields of
\* the join are validated.
handleJoin_LeaveFirst(rms, ss, stt, c, room, id) ==
    IF room = Null \/ id = Null
    THEN LET left == handleLeave(rms, ss, stt, c)
         IN  [rooms |-> left.rooms, sess |-> left.sess,
              out |-> left.out \o <<To(c, ErrorMsg(RequiredText))>>]
    ELSE JoinWith(rms, ss, stt, c, room, id, 2, TRUE)

\* Mutant of handleJoin: the capacity check already refuses the second
\* participant.
handleJoin_Capacity1(rms, ss, stt, c, room, id) ==
    JoinWith(rms, ss, stt, c, room, id, 1, TRUE)

\* Mutant of handleJoin: the capacity of the target room is checked before
\* the previous room is left, so a rejected join changes nothing.
handleJoin_CheckBeforeLeave(rms, ss, stt, c, room, id) ==
    IF room = Null \/ id = Null
    THEN [rooms |-> rms, sess |-> ss, out |-> <<To(c, ErrorMsg(RequiredText))>>]
    ELSE IF RoomsHas(rms, room) /\ Len(rms[room]) >= 2 /\ ~Has(rms[room], id)
    THEN [rooms |-> rms, sess |-> ss, out |-> <<To(c, ErrorMsg(FullText))>>]
    ELSE JoinWith(rms, ss, stt, c, room, id, 2, TRUE)

handleJoin(rms, ss, stt, c, room, id) ==
    IF room = Null \/ id = Null
    THEN [rooms |-> rms, sess |-> ss, out |-> <<To(c, ErrorMsg(RequiredText))>>]
    ELSE LET left == IF ss[c].room # Null /\ ss[c].room # room
                     THEN handleLeave(rms, ss, stt, c)
                     ELSE Same(rms, ss)
             made == IF RoomsHas(left.rooms, room) THEN left.rooms
                     ELSE RoomsSet(left.rooms, room, <<>>)
             participants == made[room]
         IN  IF Len(participants) >= 2 /\ ~Has(participants, id)
             THEN [rooms |-> made, sess |-> left.sess,
                   out |-> left.out \o <<To(c, ErrorMsg(FullText))>>]
             ELSE LET after == RoomsSet(made, room, MapSet(participants, id, c))
                  IN  [rooms |-> after,
                       sess |-> [left.sess EXCEPT
                                   ![c] = [room |-> room, id |-> id, auth |-> TRUE]],
                       out |-> left.out
                               \o <<To(c, JoinedMsg(room, id, Len(after[room])))>>
                               \o PeerJoinedOut(after, stt, c, room, id)]

\* Mutant of handleRelay: a relay message from a connection that has not
\* joined is answered with an error.
handleRelay_ErrorReply(rms, ss, stt, c, type, body) ==
    IF ~ss[c].auth \/ ss[c].room = Null
    THEN [rooms |-> rms, sess |-> ss, out |-> <<To(c, ErrorMsg(InvalidText))>>]
    ELSE IF body = Null THEN Same(rms, ss)
    ELSE [rooms |-> rms, sess |-> ss,
          out |-> broadcastToRoom(rms, stt, ss[c].room,
                                  RelayMsg(type, body, ss[c].id), ss[c].id)]

\* Mutant of handleRelay: a message without its payload is forwarded as well.
handleRelay_ForwardEmpty(rms, ss, stt, c, type, body) ==
    IF ~ss[c].auth \/ ss[c].room = Null THEN Same(rms, ss)
    ELSE [rooms |-> rms, sess |-> ss,
          out |-> broadcastToRoom(rms, stt, ss[c].room,
                                  RelayMsg(type, body, ss[c].id), ss[c].id)]

\* handleOffer, handleAnswer and handleIceCandidate differ in the message type only.
handleRelay(rms, ss, stt, c, type, body) ==
    IF ~ss[c].auth \/ ss[c].room = Null THEN Same(rms, ss)
    ELSE IF body = Null THEN Same(rms, ss)
    ELSE [rooms |-> rms, sess |-> ss,
          out |-> broadcastToRoom(rms, stt, ss[c].room,
                                  RelayMsg(type, body, ss[c].id), ss[c].id)]

RelayTypes == {"offer", "answer", "ice-candidate"}

\* The data of an inbound frame: ok = FALSE when JSON.parse (or reading
\* message.type) throws.
Data(ok, type, room, id, body) ==
    [ok |-> ok, type |-> type, room |-> room, id |-> id, body |-> body]

Inbound ==
    {Data(FALSE, Null, Null, Null, Null)}
    \cup {Data(TRUE, "join", r, i, Null) : r \in Rooms \cup {Null}, i \in Ids \cup {Null}}
    \cup {Data(TRUE, t, Null, Null, b) : t \in RelayTypes, b \in Bodies \cup {Null}}
    \cup {Data(TRUE, "leave", Null, Null, Null), Data(TRUE, "other", Null, Null, Null)}

\* Mutant of onMessage: a frame that cannot be parsed also ends the sender's
\* membership.
onMessage_MalformedLeaves(rms, ss, stt, c, data) ==
    IF ~data.ok
    THEN LET left == handleLeave(rms, ss, stt, c)
         IN  [rooms |-> left.rooms, sess |-> left.sess,
              out |-> left.out \o <<To(c, ErrorMsg(InvalidText))>>]
    ELSE CASE data.type = "join" -> handleJoin(rms, ss, stt, c, data.room, data.id)
           [] data.type \in RelayTypes ->
                  handleRelay(rms, ss, stt, c, data.type, data.body)
           [] data.type = "leave" -> handleLeave(rms, ss, stt, c)
           [] OTHER -> Same(rms, ss)

\* Mutant of onMessage: a message of an unknown type is answered like a frame
\* that cannot be parsed.
onMessage_UnknownRejected(rms, ss, stt, c, data) ==
    IF ~data.ok
    THEN [rooms |-> rms, sess |-> ss, out |-> <<To(c, ErrorMsg(InvalidText))>>]
    ELSE CASE data.type = "join" -> handleJoin(rms, ss, stt, c, data.room, data.id)
           [] data.type \in RelayTypes ->
                  handleRelay(rms, ss, stt, c, data.type, data.body)
           [] data.type = "leave" -> handleLeave(rms, ss, stt, c)
           [] OTHER -> [rooms |-> rms, sess |-> ss,
                        out |-> <<To(c, ErrorMsg(InvalidText))>>]

onMessage(rms, ss, stt, c, data) ==
    IF ~data.ok
    THEN [rooms |-> rms, sess |-> ss, out |-> <<To(c, ErrorMsg(InvalidText))>>]
    ELSE CASE data.type = "join" -> handleJoin(rms, ss, stt, c, data.room, data.id)
           [] data.type \in RelayTypes ->
                  handleRelay(rms, ss, stt, c, data.type, data.body)
           [] data.type = "leave" -> handleLeave(rms, ss, stt, c)
           [] OTHER -> Same(rms, ss)

\* ------------------------------- actions -------------------------------
NoData == Data(FALSE, Null, Null, Null, Null)

Event(kind, c, data) == [kind |-> kind, c |-> c, data |-> data]

Snapshot == [rooms |-> rooms, sess |-> sess, st |-> st, isAlive |-> isAlive]

Idle == ev.kind = "idle"

\* The handler's result r made a registration (participants.set, lines 187/190).
Registers(r) == \E m \in Range(r.out) : m.type = "joined"

Init ==
    /\ rooms = [r \in {} |-> <<>>]
    /\ sess = [c \in Conns |-> NoSession]
    /\ st = [c \in Conns |-> "NEW"]
    /\ isAlive = [c \in Conns |-> FALSE]
    /\ missed = [c \in Conns |-> 0]
    /\ joins = 0
    /\ ev = Event("idle", NoWs, NoData)
    /\ sent = <<>>
    /\ pre = [rooms |-> [r \in {} |-> <<>>],
              sess |-> [c \in Conns |-> NoSession],
              st |-> [c \in Conns |-> "NEW"],
              isAlive |-> [c \in Conns |-> FALSE]]

\* wss.on('connection'): a new socket, session variables null, isAlive true.
Connect(c) ==
    /\ Idle
    /\ st[c] = "NEW"
    /\ \A d \in Conns : d < c => st[d] # "NEW"
    /\ st' = [st EXCEPT ![c] = "OPEN"]
    /\ sess' = [sess EXCEPT ![c] = NoSession]
    /\ isAlive' = [isAlive EXCEPT ![c] = TRUE]
    /\ missed' = [missed EXCEPT ![c] = 0]
    /\ ev' = Event("connect", c, NoData)
    /\ sent' = <<>>
    /\ pre' = Snapshot
    /\ UNCHANGED <<rooms, joins>>

\* ws.on('message')
Message(c, data) ==
    /\ Idle
    /\ st[c] = "OPEN"
    /\ LET r == onMessage(rooms, sess, st, c, data)
           n == IF Registers(r) THEN 1 ELSE 0
       IN  /\ joins' = joins + n
           /\ rooms' = r.rooms
           /\ sess' = r.sess
           /\ sent' = r.out
    /\ ev' = Event("message", c, data)
    /\ pre' = Snapshot
    /\ UNCHANGED <<st, isAlive, missed>>

\* The transport starts to close (peer close frame, network failure): the
\* socket stops being OPEN; its 'close' event is still to be emitted.
Drop(c) ==
    /\ Idle
    /\ st[c] = "OPEN"
    /\ st' = [st EXCEPT ![c] = "CLOSING"]
    /\ ev' = Event("drop", c, NoData)
    /\ sent' = <<>>
    /\ pre' = Snapshot
    /\ UNCHANGED <<rooms, sess, isAlive, missed, joins>>

\* ws.on('error'): emitted with the socket no longer OPEN, before 'close'.
OnError(c) ==
    /\ Idle
    /\ st[c] \in {"OPEN", "CLOSING"}
    /\ LET stt == [st EXCEPT ![c] = "CLOSING"]
           r == handleLeave(rooms, sess, stt, c)
       IN  /\ st' = stt
           /\ rooms' = r.rooms
           /\ sess' = r.sess
           /\ sent' = r.out
    /\ ev' = Event("error", c, NoData)
    /\ pre' = Snapshot
    /\ UNCHANGED <<isAlive, missed, joins>>

\* ws.on('close'): readyState is CLOSED and the socket has left wss.clients.
OnClose(c) ==
    /\ Idle
    /\ st[c] = "CLOSING"
    /\ LET stt == [st EXCEPT ![c] = "CLOSED"]
           r == handleLeave(rooms, sess, stt, c)
       IN  /\ st' = stt
           /\ rooms' = r.rooms
           /\ sess' = r.sess
           /\ sent' = r.out
    /\ ev' = Event("close", c, NoData)
    /\ pre' = Snapshot
    /\ UNCHANGED <<isAlive, missed, joins>>

\* ws.on('pong')
Pong(c) ==
    /\ Idle
    /\ st[c] = "OPEN"
    /\ isAlive' = [isAlive EXCEPT ![c] = TRUE]
    /\ missed' = [missed EXCEPT ![c] = 0]
    /\ ev' = Event("pong", c, NoData)
    /\ sent' = <<>>
    /\ pre' = Snapshot
    /\ UNCHANGED <<rooms, sess, st, joins>>

\* wss.clients: the sockets whose 'close' event has not been emitted yet.
Clients == {c \in Conns : st[c] \in {"OPEN", "CLOSING"}}

\* Mutant of Terminated: the monitor terminates every tracked socket.
Terminated_Always(c) == c \in Clients

Terminated(c) == c \in Clients /\ isAlive[c] = FALSE

PingFrame == Msg("ping")

\* The ping frames of one monitor cycle, in the order of wss.clients: one to
\* every socket that was not terminated and can be written to.
RECURSIVE Pings(_)
Pings(c) ==
    IF c \notin Conns THEN <<>>
    ELSE IF c \in Clients /\ ~Terminated(c) /\ st[c] = "OPEN"
         THEN <<To(c, PingFrame)>> \o Pings(c + 1)
         ELSE Pings(c + 1)

\* Mutant of Heartbeat: a socket found with isAlive false is pinged again.
Heartbeat_NoTerminate ==
    /\ Idle
    /\ \A c \in Clients : missed[c] < MaxMissed
    /\ isAlive' = [c \in Conns |-> IF c \in Clients THEN FALSE ELSE isAlive[c]]
    /\ missed' = [c \in Conns |->
                    IF c \in Clients THEN missed[c] + 1 ELSE missed[c]]
    /\ ev' = Event("heartbeat", NoWs, NoData)
    /\ sent' = Pings(1)
    /\ pre' = Snapshot
    /\ UNCHANGED <<rooms, sess, st, joins>>

\* One run of the heartbeatInterval callback over wss.clients.
Heartbeat ==
    /\ Idle
    /\ \A c \in Clients : missed[c] < MaxMissed
    /\ st' = [c \in Conns |-> IF Terminated(c) THEN "CLOSING" ELSE st[c]]
    /\ isAlive' = [c \in Conns |-> IF c \in Clients THEN FALSE ELSE isAlive[c]]
    /\ missed' = [c \in Conns |->
                    IF c \in Clients THEN missed[c] + 1 ELSE missed[c]]
    /\ ev' = Event("heartbeat", NoWs, NoData)
    /\ sent' = Pings(1)
    /\ pre' = Snapshot
    /\ UNCHANGED <<rooms, sess, joins>>

\* The handler returns to the event loop.
Return ==
    /\ ~Idle
    /\ ev' = Event("idle", NoWs, NoData)
    /\ sent' = <<>>
    /\ pre' = Snapshot
    /\ UNCHANGED <<rooms, sess, st, isAlive, missed, joins>>

\* The signalling protocol.  The liveness monitor is left to SpecMonitor: of
\* the variables the handlers read it changes readyState only, from OPEN to
\* CLOSING, which Drop does here for one socket at a time.
Step ==
    \/ \E c \in Conns : Connect(c)
    \/ \E c \in Conns, data \in Inbound : Message(c, data)
    \/ \E c \in Conns : Drop(c)
    \/ \E c \in Conns : OnError(c)
    \/ \E c \in Conns : OnClose(c)
    \/ Return

\* The signalling server with at most MaxJoins registrations.
Next == Step /\ joins' <= MaxJoins

Spec == Init /\ [][Next]_vars

\* The whole server, liveness monitor included, with fewer sockets and
\* registrations.
NextMonitor ==
    \/ /\ Next
       /\ joins' <= MonitorJoins
       /\ \A c \in Conns \ MonitorConns : st'[c] = "NEW"
    \/ \E c \in Conns : Pong(c)
    \/ Heartbeat

SpecMonitor == Init /\ [][NextMonitor]_vars

\* The signalling server with more registrations, all of them in one room.
NextOneRoom ==
    /\ Step
    /\ joins' <= DeepJoins
    /\ DOMAIN rooms' \subseteq OneRoom

SpecOneRoom == Init /\ [][NextOneRoom]_vars

\* The signalling server with more registrations, all of them under two ids.
NextTwoIds ==
    /\ Step
    /\ joins' <= DeepJoins
    /\ \A c \in Conns : sess'[c].id \in TwoIds \cup {Null}

SpecTwoIds == Init /\ [][NextTwoIds]_vars

\* ------------------------ reading the last step ------------------------
PartsOf(rms, room) == IF room \in DOMAIN rms THEN rms[room] ELSE <<>>

Handles(parts) == {parts[k].ws : k \in 1 .. Len(parts)}

Indices(P(_)) == {k \in 1 .. Len(sent) : P(sent[k])}

IsMessage(type) == ev.kind = "message" /\ ev.data.ok /\ ev.data.type = type

\* The last step handled a join message with both fields present.
IsJoin == IsMessage("join") /\ ev.data.room # Null /\ ev.data.id # Null

\* The last step handled an offer, answer or ice-candidate with its payload.
IsRelay ==
    ev.kind = "message" /\ ev.data.ok /\ ev.data.type \in RelayTypes
    /\ ev.data.body # Null

\* The last step handled the close or the error event of a socket.
IsClosure == ev.kind \in {"close", "error"}

\* Connection c's session says it is joined, and the registry entry under its
\* room and id is its own handle.
JoinedIn(rms, ss, c) ==
    /\ ss[c].auth
    /\ ss[c].room \in DOMAIN rms
    /\ Get(rms[ss[c].room], ss[c].id) = c

DistinctIds(parts) ==
    \A j, k \in 1 .. Len(parts) : parts[j].id = parts[k].id => j = k

\* -------------------------------- C1 -----------------------------------
\* C1: every room present in the registry holds 1 or 2 participants: no room
\* is retained with 0 participants and none ever holds more than 2.
C1_RoomSize == \A r \in DOMAIN rooms : Len(rooms[r]) \in {1, 2}

\* A full room exists and the last step removed another room that emptied.
C1_Witness ==
    /\ \E r \in DOMAIN rooms : Len(rooms[r]) = 2
    /\ \E r \in DOMAIN pre.rooms : r \notin DOMAIN rooms

\* -------------------------------- C2 -----------------------------------
\* C2: a join naming a room that holds 2 participants, with an id that is not
\* one of them, is answered with the 'Room is full' error to the sender,
\* sends no joined and no peer-joined message, and leaves the room's entries
\* exactly as they were.
C2_FullCase ==
    /\ IsJoin
    /\ Len(PartsOf(pre.rooms, ev.data.room)) = 2
    /\ ~Has(PartsOf(pre.rooms, ev.data.room), ev.data.id)

C2_FullRejected ==
    C2_FullCase =>
        /\ sent # <<>>
        /\ sent[Len(sent)] = To(ev.c, ErrorMsg(FullText))
        /\ Indices(LAMBDA m : m.type \in {"joined", "peer-joined"}) = {}
        /\ Indices(LAMBDA m : m.type = "error") = {Len(sent)}
        /\ PartsOf(rooms, ev.data.room) = PartsOf(pre.rooms, ev.data.room)

\* A third connection was refused by a room held by two other connections.
C2_Witness ==
    /\ C2_FullCase
    /\ ev.c \notin Handles(PartsOf(pre.rooms, ev.data.room))
    /\ Cardinality(Handles(PartsOf(pre.rooms, ev.data.room))) = 2
    /\ sent = <<To(ev.c, ErrorMsg(FullText))>>

\* -------------------------------- C3 -----------------------------------
\* The last step was a join that raised its room's size from 1 to 2.
C3_Pairing ==
    /\ IsJoin
    /\ Len(PartsOf(pre.rooms, ev.data.room)) = 1
    /\ Len(PartsOf(rooms, ev.data.room)) = 2

\* C3: whenever a join raises a room's size from 1 to 2, exactly one of the
\* two participants receives peer-joined with shouldCreateOffer = true, and it
\* is the participant who was already in the room; the newly joined
\* participant receives peer-joined with shouldCreateOffer = false.
C3_FirstInitiates ==
    C3_Pairing =>
        LET first == pre.rooms[ev.data.room][1]
            offers == Indices(LAMBDA m : m.type = "peer-joined" /\ m.shouldCreateOffer)
            waits == Indices(LAMBDA m : m.type = "peer-joined" /\ ~m.shouldCreateOffer)
        IN  /\ Cardinality(offers) = 1
            /\ \A k \in offers : sent[k] = To(first.ws, PeerJoinedMsg(ev.data.id, TRUE))
            /\ \A k \in offers : sent[k].to # ev.c
            /\ Cardinality(waits) = 1
            /\ \A k \in waits : sent[k] = To(ev.c, PeerJoinedMsg(first.id, FALSE))

\* -------------------------------- C4 -----------------------------------
\* The last step relayed a message of connection A's, registered as the
\* sender's id in a room that holds one other participant B.
C4_PairedRelay ==
    /\ IsRelay
    /\ JoinedIn(pre.rooms, pre.sess, ev.c)
    /\ Len(pre.rooms[pre.sess[ev.c].room]) = 2

\* C4: when a room holds participants A and B, every offer, answer or
\* ice-candidate with its payload sent by A's connection is delivered to B's
\* connection with the same payload and from = A, and never back to A's own
\* connection.
C4_RelayedToPeer ==
    C4_PairedRelay =>
        LET a == pre.sess[ev.c].id
            parts == pre.rooms[pre.sess[ev.c].room]
            b == IF parts[1].id = a THEN parts[2] ELSE parts[1]
        IN  /\ \E k \in 1 .. Len(sent) :
                   sent[k] = To(b.ws, RelayMsg(ev.data.type, ev.data.body, a))
            /\ \A k \in 1 .. Len(sent) : sent[k].to # ev.c

\* -------------------------------- C5 -----------------------------------
\* C5: when the transport of a connection joined to a room closes (also when
\* an error event and a close event both fire for it): if the room held 2
\* participants the remaining one receives exactly one peer-left naming the
\* departed id and the room is left with exactly 1 entry; if it held 1, the
\* room is removed from the registry.
C5_ClosureCleansUp ==
    /\ (IsClosure /\ JoinedIn(pre.rooms, pre.sess, ev.c)) =>
        LET room == pre.sess[ev.c].room
            id == pre.sess[ev.c].id
            parts == pre.rooms[room]
        IN  /\ Len(parts) = 2 =>
                LET other == IF parts[1].id = id THEN parts[2] ELSE parts[1]
                IN  /\ Cardinality(Indices(LAMBDA m :
                            m = To(other.ws, PeerLeftMsg(id)))) = 1
                    /\ Len(sent) = 1
                    /\ Len(PartsOf(rooms, room)) = 1
            /\ Len(parts) = 1 => room \notin DOMAIN rooms
    /\ (IsClosure /\ pre.sess[ev.c] = NoSession) => sent = <<>> /\ rooms = pre.rooms

\* -------------------------------- C6 -----------------------------------
\* The last step handled the close event of a socket the monitor terminated:
\* two monitor cycles had run on it since its last acknowledgment.
C6_Reaped == ev.kind = "close" /\ missed[ev.c] >= 2 /\ pre.sess[ev.c] # NoSession

C7_Rejoin == IsJoin /\ Has(PartsOf(pre.rooms, ev.data.room), ev.data.id)

\* C7: a join whose id is already present in the target room (from the same
\* or from another connection) replaces the handle stored under that id with
\* the joining connection's handle and leaves the room's size and its ids
\* unchanged; no id is ever stored twice.
C7_RejoinReplaces ==
    /\ \A r \in DOMAIN rooms : DistinctIds(rooms[r])
    /\ C7_Rejoin =>
        LET before == pre.rooms[ev.data.room]
            after == PartsOf(rooms, ev.data.room)
        IN  /\ Len(after) = Len(before)
            /\ Keys(after) = Keys(before)
            /\ Get(after, ev.data.id) = ev.c
            /\ \A k \in 1 .. Len(before) :
                   before[k].id # ev.data.id => after[k] = before[k]

\* A rejoin took an id over from another connection.
C7_Witness ==
    /\ C7_Rejoin
    /\ Get(pre.rooms[ev.data.room], ev.data.id) # ev.c
    /\ Len(pre.rooms[ev.data.room]) = 2

\* -------------------------------- C8 -----------------------------------
\* C8: once a connection's closure has been processed, no entry of any room
\* still refers to its handle; when every connection has closed the registry
\* holds no rooms.
C8_NoEntryOfClosed ==
    \A c \in Conns : st[c] = "CLOSED" =>
        \A r \in DOMAIN rooms : c \notin Handles(rooms[r])

\* -------------------------------- C9 -----------------------------------
\* What the leave procedure does for connection c when its readyState is s.
C9_Outcome(c, s) ==
    LET r == handleLeave(rooms, sess, [st EXCEPT ![c] = s], c)
    IN  <<r.rooms, r.sess, r.out>>

\* C9: from every reachable state a close event, an error event and an
\* explicit leave message on the same connection produce the same registry,
\* the same peer-left messages to the same recipients and the same cleared
\* session variables.
C9_SameCleanup ==
    \A c \in Conns : (Idle /\ st[c] = "OPEN") =>
        /\ C9_Outcome(c, "OPEN") = C9_Outcome(c, "CLOSED")
        /\ C9_Outcome(c, "OPEN") = C9_Outcome(c, "CLOSING")

\* -------------------------------- C10 ----------------------------------
\* The last step was a join that was accepted: valid and not refused.
C10_Accepted == IsJoin /\ Indices(LAMBDA m : m.type = "error") = {}

\* C10: every accepted join sends the joiner a joined acknowledgment whose
\* room and id are the requested ones and whose participants field is the
\* room's size right after the insertion, and sends it before any peer-joined
\* message of that join.
C10_JoinedFirst ==
    C10_Accepted =>
        LET acks == Indices(LAMBDA m : m.type = "joined")
            peers == Indices(LAMBDA m : m.type = "peer-joined")
        IN  /\ Cardinality(acks) = 1
            /\ \A k \in acks :
                   /\ sent[k] = To(ev.c, JoinedMsg(ev.data.room, ev.data.id,
                                                  Len(PartsOf(rooms, ev.data.room))))
                   /\ \A j \in peers : k < j
            /\ Get(PartsOf(rooms, ev.data.room), ev.data.id) = ev.c

\* A second participant was accepted: joined reports 2 and peer-joined follows.
C10_Witness ==
    /\ C10_Accepted
    /\ Len(PartsOf(pre.rooms, ev.data.room)) = 1
    /\ \E k \in 1 .. Len(sent) : sent[k].type = "joined" /\ sent[k].participants = 2
    /\ \E k \in 1 .. Len(sent) : sent[k].type = "peer-joined" /\ sent[k].to # ev.c

\* -------------------------------- C11 ----------------------------------
\* C11: a join whose room or id is missing or empty is answered with an error
\* to the sender and changes nothing else: the registry, every session (the
\* sender's current membership included) and every socket stay as they were,
\* and no other connection is sent a message.
C11_InvalidJoin ==
    IsMessage("join") /\ (ev.data.room = Null \/ ev.data.id = Null)

C11_InvalidJoinRejected ==
    C11_InvalidJoin =>
        /\ sent = <<To(ev.c, ErrorMsg(RequiredText))>>
        /\ rooms = pre.rooms
        /\ sess = pre.sess
        /\ st = pre.st

\* The invalid join came from a connection that is paired in a room.
C11_Witness ==
    /\ C11_InvalidJoin
    /\ JoinedIn(pre.rooms, pre.sess, ev.c)
    /\ Len(pre.rooms[pre.sess[ev.c].room]) = 2
    /\ sess[ev.c] = pre.sess[ev.c]

\* -------------------------------- C12 ----------------------------------
\* C12: a message that cannot be parsed is answered with the error 'Invalid
\* message format' to the sender only, and the sessions and the registry stay
\* as they were.
C12_Unparsable == ev.kind = "message" /\ ~ev.data.ok

C12_UnparsableRejected ==
    C12_Unparsable =>
        /\ sent = <<To(ev.c, ErrorMsg(InvalidText))>>
        /\ rooms = pre.rooms
        /\ sess = pre.sess

\* The unparsable message came from a connection that is paired in a room.
C12_Witness ==
    /\ C12_Unparsable
    /\ JoinedIn(pre.rooms, pre.sess, ev.c)
    /\ Len(pre.rooms[pre.sess[ev.c].room]) = 2
    /\ Len(sent) = 1

\* -------------------------------- C13 ----------------------------------
\* C13: an offer, answer, ice-candidate or leave from a connection that has
\* not joined a room, or has already left it, is dropped: nothing is sent to
\* any connection, and the registry and every session stay as they were.
C13_FromOutside ==
    /\ ev.kind = "message" /\ ev.data.ok
    /\ ev.data.type \in RelayTypes \cup {"leave"}
    /\ ~pre.sess[ev.c].auth

C13_OutsideDropped ==
    C13_FromOutside =>
        /\ sent = <<>>
        /\ rooms = pre.rooms
        /\ sess = pre.sess

\* A relay message with its payload came from a connection without a session
\* while a room with an open participant exists.
C13_Witness ==
    /\ C13_FromOutside
    /\ IsRelay
    /\ \E r \in DOMAIN rooms : \E w \in Handles(rooms[r]) : st[w] = "OPEN"

\* -------------------------------- C14 ----------------------------------
\* C14: an unparsable message from a connection, or its abrupt disconnect
\* (the transport going down, then its error and close events), changes the
\* membership of no room other than the one the connection's session names,
\* changes no other connection's session, and sends nothing except an error
\* reply to the sender and peer-left to the participants that remain in the
\* sender's own room.
C14_Disturbance ==
    C12_Unparsable \/ ev.kind \in {"drop", "error", "close"}

EntriesOf(rms, c) ==
    {<<r, k>> \in (DOMAIN rms) \X (1 .. 2) : k <= Len(rms[r]) /\ rms[r][k].ws = c}

\* C15: at every instant the handle of a connection is stored under at most
\* one (room, id) entry of the registry, whatever joins it has sent: joins
\* that change only its id or only its room included.
C15_OneMembership == \A c \in Conns : Cardinality(EntriesOf(rooms, c)) <= 1

\* -------------------------------- C16 ----------------------------------
\* The connections the last step sent a message to.
Recipients == {sent[k].to : k \in 1 .. Len(sent)}

\* C16: every relayed offer, answer or ice-candidate is delivered to at most
\* one connection, and that connection is the other participant of the
\* sender's room: a connection that is not the sender and is registered in
\* the room the sender's session names.
C16_OneRecipient ==
    IsRelay =>
        /\ Cardinality(Recipients) <= 1
        /\ \A w \in Recipients :
               /\ w # ev.c
               /\ w \in Handles(PartsOf(rooms, sess[ev.c].room))

\* -------------------------------- C17 ----------------------------------
\* C17: peer-joined is sent only by a join that has just raised the size of
\* its room to exactly 2; a join with an id that already is in the room sends
\* no peer-joined to anyone.
C17_OnlyOnPairing ==
    (\E k \in 1 .. Len(sent) : sent[k].type = "peer-joined") =>
        /\ IsJoin
        /\ ~Has(PartsOf(pre.rooms, ev.data.room), ev.data.id)
        /\ Len(PartsOf(pre.rooms, ev.data.room)) = 1
        /\ Len(PartsOf(rooms, ev.data.room)) = 2

\* -------------------------------- C18 ----------------------------------
\* The last step handled a join for a room other than the one the sender's
\* session named.
C18_Switch ==
    /\ IsJoin
    /\ pre.sess[ev.c].room # Null
    /\ pre.sess[ev.c].room # ev.data.room

\* The leave of the old room came first: its messages open `sent`, and the
\* old room lost the sender's id (and went away if that emptied it).
C18_LeftFirst ==
    C18_Switch =>
        LET left == handleLeave(pre.rooms, pre.sess, pre.st, ev.c)
            old == pre.sess[ev.c].room
        IN  /\ Len(sent) >= Len(left.out)
            /\ SubSeq(sent, 1, Len(left.out)) = left.out
            /\ PartsOf(rooms, old) = PartsOf(left.rooms, old)
            /\ ~Has(PartsOf(rooms, old), pre.sess[ev.c].id)
            /\ (old \in DOMAIN rooms => rooms[old] # <<>>)

\* C18: a join for room R2 from a connection that is in a different room R1
\* first runs the full leave for R1 (peer-left to R1's other participant, the
\* entry removed, R1 deleted if it emptied) before anything is checked or
\* inserted for R2, so the connection is never a member of R1 and of R2 at
\* once.
C18_SwitchLeaves ==
    /\ C18_LeftFirst
    /\ C18_Switch => ev.c \notin Handles(PartsOf(rooms, pre.sess[ev.c].room))
    /\ \A c \in Conns : \A r1, r2 \in DOMAIN rooms :
           c \in Handles(rooms[r1]) /\ c \in Handles(rooms[r2]) => r1 = r2

\* -------------------------------- C19 ----------------------------------
\* The last step handled a join under an id that is not in the room, from a
\* connection that holds no entry of that room.
C19_NewJoin ==
    /\ IsJoin
    /\ ~Has(PartsOf(pre.rooms, ev.data.room), ev.data.id)
    /\ ev.c \notin Handles(PartsOf(pre.rooms, ev.data.room))

\* C19: joins from distinct connections with distinct ids to one room are
\* handled one after the other, the capacity check, the insertion and the
\* offer designation of each in one piece: a join that finds n < 2 entries is
\* admitted, adds exactly its own entry and is told participants = n + 1 (so
\* one joiner sees 1 and the next sees 2, with the earlier participant
\* designated to create the offer), and a join that finds 2 entries is
\* rejected as full and adds nothing.
C19_AtomicAdmission ==
    C19_NewJoin =>
        LET before == PartsOf(pre.rooms, ev.data.room)
            n == Len(before)
            acks == Indices(LAMBDA m : m.type = "joined")
            peers == Indices(LAMBDA m : m.type = "peer-joined")
            entry == [id |-> ev.data.id, ws |-> ev.c]
        IN  /\ n <= 2
            /\ n < 2 =>
                   /\ rooms[ev.data.room] = Append(before, entry)
                   /\ Cardinality(acks) = 1
                   /\ \A k \in acks :
                          sent[k] = To(ev.c, JoinedMsg(ev.data.room, ev.data.id, n + 1))
            /\ n = 0 => peers = {}
            /\ n = 1 =>
                   /\ sent[Len(sent)] = To(ev.c, PeerJoinedMsg(before[1].id, FALSE))
                   /\ \A k \in peers \ {Len(sent)} :
                          sent[k] = To(before[1].ws, PeerJoinedMsg(ev.data.id, TRUE))
            /\ n = 2 =>
                   /\ rooms[ev.data.room] = before
                   /\ acks = {} /\ peers = {}
                   /\ sent[Len(sent)] = To(ev.c, ErrorMsg(FullText))

\* Three connections asked for one room under three ids: the third found the
\* two others registered and was rejected.
C19_Witness ==
    /\ C19_NewJoin
    /\ Len(PartsOf(pre.rooms, ev.data.room)) = 2
    /\ Cardinality(Handles(PartsOf(pre.rooms, ev.data.room))) = 2
    /\ \E k \in 1 .. Len(sent) : sent[k].type = "error"

\* -------------------------------- C20 ----------------------------------
\* The sockets the monitor cycle of the last step ran on.
C20_Tracked ==
    IF ev.kind = "heartbeat"
    THEN {c \in Conns : pre.st[c] \in {"OPEN", "CLOSING"}}
    ELSE {}

C20_Probes(c) == Indices(LAMBDA m : m.type = "ping" /\ m.to = c)

\* C20: in each monitor cycle a tracked connection is terminated only if its
\* liveness flag is false; otherwise its flag is set false and one probe is
\* sent to it (a socket that is already closing gets no frame); a connection
\* that acknowledged since the previous cycle is never terminated by the
\* cycle.
C20_MonitorCycle ==
    \A c \in C20_Tracked :
        /\ st[c] # pre.st[c] => pre.isAlive[c] = FALSE
        /\ pre.isAlive[c] =>
               /\ st[c] = pre.st[c]
               /\ isAlive[c] = FALSE
               /\ Cardinality(C20_Probes(c)) = IF pre.st[c] = "OPEN" THEN 1 ELSE 0
        /\ ~pre.isAlive[c] => C20_Probes(c) = {} /\ st[c] # "OPEN"
        /\ missed[c] = 1 => st[c] = pre.st[c]

\* One cycle terminated a silent socket and probed another that had
\* acknowledged the earlier probe.
C20_Witness ==
    /\ \E c \in C20_Tracked : pre.st[c] = "OPEN" /\ st[c] = "CLOSING"
    /\ \E c \in C20_Tracked :
           /\ pre.isAlive[c] /\ st[c] = "OPEN" /\ C20_Probes(c) # {}
           /\ \E d \in C20_Tracked : missed[d] > missed[c]

\* -------------------------------- C21 ----------------------------------
\* The last step handled an offer, answer or ice-candidate without its
\* payload field, sent by a connection whose session says it is joined.
C21_NoPayload ==
    /\ ev.kind = "message" /\ ev.data.ok
    /\ ev.data.type \in RelayTypes
    /\ ev.data.body = Null
    /\ pre.sess[ev.c].auth

\* C21: an offer, answer or ice-candidate from a joined connection whose
\* payload field is absent is dropped: nothing is delivered to the other
\* participant, nothing is replied to the sender, and the registry and the
\* sessions stay as they were.
C21_NoPayloadDropped ==
    C21_NoPayload =>
        /\ sent = <<>>
        /\ rooms = pre.rooms
        /\ sess = pre.sess

\* The message without payload came from a connection paired with another
\* connection whose socket is open, so a forward would have been delivered.
C21_Witness ==
    /\ C21_NoPayload
    /\ JoinedIn(pre.rooms, pre.sess, ev.c)
    /\ \E w \in Handles(pre.rooms[pre.sess[ev.c].room]) :
           w # ev.c /\ pre.st[w] = "OPEN"

\* -------------------------------- C22 ----------------------------------
\* The last step handled a parsed message whose type the switch does not know.
C22_UnknownType ==
    /\ ev.kind = "message" /\ ev.data.ok
    /\ ev.data.type \notin {"join", "leave"} \cup RelayTypes

\* C22: a well-formed message whose type is none of join, offer, answer,
\* ice-candidate and leave is answered with nothing, sends nothing to any
\* connection, and leaves the registry and the sessions as they were.
C22_UnknownIgnored ==
    C22_UnknownType =>
        /\ sent = <<>>
        /\ rooms = pre.rooms
        /\ sess = pre.sess

\* The message of unknown type came from a connection paired with another
\* connection whose socket is open.
C22_Witness ==
    /\ C22_UnknownType
    /\ JoinedIn(pre.rooms, pre.sess, ev.c)
    /\ \E w \in Handles(pre.rooms[pre.sess[ev.c].room]) :
           w # ev.c /\ pre.st[w] = "OPEN"
    /\ sess[ev.c].auth

\* -------------------------------- C23 ----------------------------------
\* C23: session and registry agree: whenever the session of a connection says
\* it is authenticated in room R under id I, the registry holds an entry R[I]
\* and that entry is the connection's own handle, after any joins, leaves and
\* closures of any connections.
C23_SessionInRegistry ==
    \A c \in Conns : sess[c].auth => JoinedIn(rooms, sess, c)

\* -------------------------------- C24 ----------------------------------
\* C24: a relayed offer, answer or ice-candidate is delivered to participants
\* of a room only when the sending connection is itself registered in that
\* room under the id put in `from`: a connection whose entry was replaced or
\* removed by another connection, or whose room was deleted and re-created by
\* others, gets nothing delivered.
C24_RegisteredSender ==
    IsRelay /\ sent # <<>> =>
        /\ JoinedIn(pre.rooms, pre.sess, ev.c)
        /\ \A k \in 1 .. Len(sent) : sent[k].from = pre.sess[ev.c].id

\* -------------------------------- C25 ----------------------------------
\* The last step handled a join that was rejected because its room is full.
C25_RejectedFull ==
    /\ IsJoin
    /\ \E k \in 1 .. Len(sent) : sent[k] = To(ev.c, ErrorMsg(FullText))

\* The rejected join came from a connection whose session named another room.
C25_FromOtherRoom ==
    /\ C25_RejectedFull
    /\ pre.sess[ev.c].room # Null
    /\ pre.sess[ev.c].room # ev.data.room

\* C25: a join rejected as room full from a connection joined to a different
\* room has run the leave of the old room and is not rolled back: the
\* sender's session is cleared, the entry under its old id is gone from the
\* old room (the room itself if that emptied it), and every other participant
\* of the old room that can be sent to got peer-left before the error reply;
\* a rejected join from a connection in no room or in the target room changes
\* nothing and sends the error only.
C25_LeaveNotRolledBack ==
    /\ C25_FromOtherRoom =>
           LET old == pre.sess[ev.c].room
               id == pre.sess[ev.c].id
               rest == SelectSeq(PartsOf(pre.rooms, old), LAMBDA e : e.id # id)
               open == SelectSeq(rest, LAMBDA e : pre.st[e.ws] = "OPEN")
           IN  /\ sess[ev.c] = NoSession
               /\ sess # pre.sess
               /\ PartsOf(rooms, old) = rest
               /\ (rest = <<>>) => old \notin DOMAIN rooms
               /\ sent = [k \in 1 .. Len(open) |-> To(open[k].ws, PeerLeftMsg(id))]
                         \o <<To(ev.c, ErrorMsg(FullText))>>
               /\ \A r \in DOMAIN pre.rooms \ {old} :
                      PartsOf(rooms, r) = pre.rooms[r]
    /\ C25_RejectedFull /\ ~C25_FromOtherRoom =>
           /\ rooms = pre.rooms
           /\ sess = pre.sess
           /\ sent = <<To(ev.c, ErrorMsg(FullText))>>

\* A connection paired in one room asked for a full other room: its peer was
\* told that it left, the entry and the session are gone.
C25_Witness ==
    /\ C25_FromOtherRoom
    /\ JoinedIn(pre.rooms, pre.sess, ev.c)
    /\ \E k \in 1 .. Len(sent) : sent[k].type = "peer-left" /\ sent[k].to # ev.c
    /\ ev.c \notin Handles(PartsOf(rooms, pre.sess[ev.c].room))

\* -------------------------------- C26 ----------------------------------
\* The guard of the relay handlers and the guard of handleLeave, on a session.
RelayGuard(s) == s.auth /\ s.room # Null

LeaveGuard(s) == s.room # Null /\ s.id # Null

\* C26: in every reachable state the three session variables of a connection
\* agree: isAuthenticated is true exactly when currentRoom is set and exactly
\* when clientId is set, so the guard of the relay handlers and the guard of
\* the leave handler decide alike.
C26_SessionConsistent ==
    \A c \in Conns :
        /\ sess[c].auth <=> sess[c].room # Null
        /\ sess[c].auth <=> sess[c].id # Null
        /\ RelayGuard(sess[c]) <=> LeaveGuard(sess[c])

\* A connection that was joined has just left (or was closed) while another
\* connection is joined: one session cleared, one set.
C26_Witness ==
    /\ ev.kind \in {"message", "close", "error"}
    /\ pre.sess[ev.c].auth
    /\ sess[ev.c] = NoSession
    /\ \E d \in Conns \ {ev.c} : sess[d].auth

=============================================================================
